---------------------------- MODULE Spec2Model ----------------------------
(***************************************************************************)
(* The numeric-range-to-regex compiler of src/pyang-apteryx-xml.py:        *)
(* regex_for_range (the non-negative engine, lines 40-344) and             *)
(* RegexForRange.__repr__ (the signed entry point, lines 350-378).         *)
(*                                                                         *)
(* A Python str is modelled as a sequence of one-character strings, so     *)
(* that indexing, slicing, concatenation and replace are computed as the   *)
(* code computes them.  A Python list is a sequence, a tuple a sequence.   *)
(***************************************************************************)
EXTENDS Integers, Sequences, FiniteSets, TLC

VARIABLES
    start, end,     \* the interval given to the call
    verbose,        \* the verbose argument of a direct regex_for_range call
    entry,          \* "none", or the entry point called: "repr" or "engine"
    outcome,        \* "pending", "returned" or "AssertionError"
    raise_line,     \* the source line of the raise, 0 when nothing was raised
    result,         \* the string returned
    calls,          \* the regex_for_range calls made, as pairs (start, end)
    stdout,         \* the lines printed
    globals_break_into_ranges,  \* globals()['break_into_ranges'] of line 198
    inv,            \* the concurrent invocations: position, arguments, result
    frames          \* the activation records of the concurrent invocations

vars == <<start, end, verbose, entry, outcome, raise_line, result, calls, stdout,
          globals_break_into_ranges, inv, frames>>

(***************************************************************************)
(* Bounds of the model.  Inputs are the integers of magnitude at most      *)
(* MaxVal whose decimal digits all lie in ProbeDigits (the digits at which *)
(* the case analysis of break_into_ranges_2 changes), together with every  *)
(* integer of magnitude at most MaxDense.                                  *)
(***************************************************************************)
MaxVal == 1000

MaxDense == 12

\* the number of invocations that run concurrently
MaxThreads == 2

ProbeDigits == {0, 1, 9}

(***************************************************************************)
(* Characters, str() and int().                                            *)
(***************************************************************************)
Digit == <<"0", "1", "2", "3", "4", "5", "6", "7", "8", "9">>

IsDigit(c) == \E d \in 1..10 : Digit[d] = c

DigitVal(c) == (CHOOSE d \in 1..10 : Digit[d] = c) - 1

RECURSIVE StrNat(_)
StrNat(n) == IF n < 10 THEN <<Digit[n + 1]>>
             ELSE StrNat(n \div 10) \o <<Digit[(n % 10) + 1]>>

\* str(n) of a Python int
Str(n) == IF n < 0 THEN <<"-">> \o StrNat(-n) ELSE StrNat(n)

RECURSIVE IntOf(_)
\* int(s) of a string of decimal digits (leading zeros allowed)
IntOf(s) == IF s = <<>> THEN 0
            ELSE 10 * IntOf(SubSeq(s, 1, Len(s) - 1)) + DigitVal(s[Len(s)])

RECURSIVE Repeat(_, _)
\* s * n
Repeat(s, n) == IF n <= 0 THEN <<>> ELSE s \o Repeat(s, n - 1)

\* s[i:] with a 0-based i
From(s, i) == SubSeq(s, i + 1, Len(s))

\* s.rjust(width, fill)
Rjust(s, width, fill) == Repeat(<<fill>>, width - Len(s)) \o s

\* s.startswith(prefix)
StartsWith(s, prefix) ==
    Len(prefix) <= Len(s) /\ SubSeq(s, 1, Len(prefix)) = prefix

\* s.endswith(suffix)
EndsWith(s, suffix) ==
    Len(suffix) <= Len(s) /\ SubSeq(s, Len(s) - Len(suffix) + 1, Len(s)) = suffix

RECURSIVE Replace(_, _, _)
\* s.replace(old, new): every non-overlapping occurrence, left to right
Replace(s, old, new) ==
    IF Len(s) < Len(old) THEN s
    ELSE IF SubSeq(s, 1, Len(old)) = old
         THEN new \o Replace(From(s, Len(old)), old, new)
         ELSE <<s[1]>> \o Replace(Tail(s), old, new)

RECURSIVE Join(_, _)
\* sep.join(list)
Join(sep, list) ==
    IF list = <<>> THEN <<>>
    ELSE IF Len(list) = 1 THEN list[1]
    ELSE list[1] \o sep \o Join(sep, Tail(list))

RECURSIVE Flatten(_)
\* concatenation of a list of lists
Flatten(ll) == IF ll = <<>> THEN <<>> ELSE Head(ll) \o Flatten(Tail(ll))

\* x in list
InList(x, list) == \E i \in 1..Len(list) : list[i] = x

Min(a, b) == IF a < b THEN a ELSE b

\* seeded fault: the leading-zero prefix of the original design, as an optional 0
lead_zeros_optional == <<"0", "?">>

\* the module-level global of line 347
lead_zeros == <<>>

(***************************************************************************)
(* DigitRangeSplitter: break_into_ranges_1, fix_pair, str_bp,              *)
(* break_into_ranges_2.                                                    *)
(***************************************************************************)
RECURSIVE break_into_ranges_1_noMinus(_, _)
\* seeded fault: break_point = 10 ** len(str(start)), without the - 1
break_into_ranges_1_noMinus(s, e) ==
    LET si == IntOf(s)
        ei == IntOf(e)
        break_point == 10 ^ Len(Str(si))
    IN  IF Len(Str(si)) = Len(Str(ei))
        THEN << <<Str(si), Str(ei)>> >>
        ELSE << <<Str(si), Str(break_point)>> >>
             \o break_into_ranges_1_noMinus(Str(1 + break_point), e)

RECURSIVE break_into_ranges_1(_, _)
\* start and end are strings; the recursive call of line 138 passes the int
\* 1 + break_point, which int() leaves as it is: here it is passed as its
\* str(), which IntOf turns back into the same number.
break_into_ranges_1(s, e) ==
    LET si == IntOf(s)
        ei == IntOf(e)
        break_point == 10 ^ Len(Str(si)) - 1
    IN  IF Len(Str(si)) = Len(Str(ei))
        THEN << <<Str(si), Str(ei)>> >>
        ELSE << <<Str(si), Str(break_point)>> >>
             \o break_into_ranges_1(Str(1 + break_point), e)

fix_pair(pair) == <<Rjust(pair[1], Len(pair[2]), "0"), pair[2]>>

str_bp(break_point) == fix_pair(<<Str(break_point), Str(break_point + 1)>>)

\* seeded fault: the all-zeros test of the start left out
TailZeros_never(s) == FALSE

\* '0' * len(start) == '0' + start[1:]
TailZeros(s) == Repeat(<<"0">>, Len(s)) = <<"0">> \o Tail(s)

\* seeded fault: the all-nines test of the end left out
TailNines_always(e) == TRUE

\* '9' * len(end) == '9' + end[1:]
TailNines(e) == Repeat(<<"9">>, Len(e)) = <<"9">> \o Tail(e)

\* start[0] < end[0], a comparison of two digit characters
HeadLess(s, e) == DigitVal(s[1]) < DigitVal(e[1])

\* [(digit + s, digit + e) for (s, e) in bir2]
Reattach(digit, bir2) ==
    [i \in 1..Len(bir2) |-> <<<<digit>> \o bir2[i][1], <<digit>> \o bir2[i][2]>>]

RECURSIVE break_into_ranges_2_swapped(_, _)
\* seeded fault: line 173 concatenates the upper half before the lower half
break_into_ranges_2_swapped(s, e) ==
    LET bpLow == str_bp(IntOf(<<e[1]>> \o Repeat(<<"0">>, Len(e) - 1)) - 1)
        break_digit == Str(1 + DigitVal(s[1]))
        bpUp == str_bp(IntOf(break_digit \o Repeat(<<"0">>, Len(e) - 1)) - 1)
    IN  IF Len(s) = 1 THEN << <<s, e>> >>
        ELSE IF TailZeros(s) /\ TailNines(e) THEN << <<s, e>> >>
        ELSE IF TailZeros(s) /\ HeadLess(s, e)
             THEN << <<s, bpLow[1]>> >> \o break_into_ranges_2_swapped(bpLow[2], e)
        ELSE IF TailNines(e) /\ HeadLess(s, e)
             THEN break_into_ranges_2_swapped(s, bpUp[1]) \o << <<bpUp[2], e>> >>
        ELSE IF HeadLess(s, e)
             THEN break_into_ranges_2_swapped(bpUp[2], e)
                  \o break_into_ranges_2_swapped(s, bpUp[1])
        ELSE Reattach(s[1], break_into_ranges_2_swapped(Tail(s), Tail(e)))

RECURSIVE break_into_ranges_2(_, _)
break_into_ranges_2(s, e) ==
    LET \* lines 160-161
        bpLow == str_bp(IntOf(<<e[1]>> \o Repeat(<<"0">>, Len(e) - 1)) - 1)
        \* lines 165-167 and 170-172
        break_digit == Str(1 + DigitVal(s[1]))
        bpUp == str_bp(IntOf(break_digit \o Repeat(<<"0">>, Len(e) - 1)) - 1)
    IN  IF Len(s) = 1 THEN << <<s, e>> >>
        ELSE IF TailZeros(s) /\ TailNines(e) THEN << <<s, e>> >>
        ELSE IF TailZeros(s) /\ HeadLess(s, e)
             THEN << <<s, bpLow[1]>> >> \o break_into_ranges_2(bpLow[2], e)
        ELSE IF TailNines(e) /\ HeadLess(s, e)
             THEN break_into_ranges_2(s, bpUp[1]) \o << <<bpUp[2], e>> >>
        ELSE IF HeadLess(s, e)
             THEN break_into_ranges_2(s, bpUp[1]) \o break_into_ranges_2(bpUp[2], e)
        ELSE Reattach(s[1], break_into_ranges_2(Tail(s), Tail(e)))

Max(a, b) == IF a > b THEN a ELSE b

RECURSIVE break_into_ranges_2_depth(_, _)
\* the largest number of break_into_ranges_2 calls that are active at the
\* same time during the call break_into_ranges_2(s, e): the call itself
\* and the deepest of the calls it makes at lines 162, 168, 173 and 175
break_into_ranges_2_depth(s, e) ==
    LET bpLow == str_bp(IntOf(<<e[1]>> \o Repeat(<<"0">>, Len(e) - 1)) - 1)
        break_digit == Str(1 + DigitVal(s[1]))
        bpUp == str_bp(IntOf(break_digit \o Repeat(<<"0">>, Len(e) - 1)) - 1)
    IN  IF Len(s) = 1 THEN 1
        ELSE IF TailZeros(s) /\ TailNines(e) THEN 1
        ELSE IF TailZeros(s) /\ HeadLess(s, e)
             THEN 1 + break_into_ranges_2_depth(bpLow[2], e)
        ELSE IF TailNines(e) /\ HeadLess(s, e)
             THEN 1 + break_into_ranges_2_depth(s, bpUp[1])
        ELSE IF HeadLess(s, e)
             THEN 1 + Max(break_into_ranges_2_depth(s, bpUp[1]),
                          break_into_ranges_2_depth(bpUp[2], e))
        ELSE 1 + break_into_ranges_2_depth(Tail(s), Tail(e))

\* the list bir built by the loop of lines 184-186
break_into_ranges(s, e) ==
    LET bir1 == break_into_ranges_1(s, e)
    IN  Flatten([i \in 1..Len(bir1) |-> break_into_ranges_2(bir1[i][1], bir1[i][2])])

(***************************************************************************)
(* PositionRegexBuilder: shrink, individual_regex, ranges_to_regexes,      *)
(* range_to_regexes.                                                       *)
(***************************************************************************)
AnyDigit == <<"[", "0", "-", "9", "]">>

RECURSIVE ShrinkFrom(_, _)
\* the loop of lines 340-341 from i down to 2
ShrinkFrom(regex, i) ==
    IF i <= 1 THEN regex
    ELSE ShrinkFrom(Replace(regex, Repeat(AnyDigit, i),
                            AnyDigit \o <<"{">> \o Str(i) \o <<"}">>), i - 1)

RECURSIVE ShrinkAbove2(_, _)
ShrinkAbove2(regex, i) ==
    IF i <= 2 THEN regex
    ELSE ShrinkAbove2(Replace(regex, Repeat(AnyDigit, i),
                              AnyDigit \o <<"{">> \o Str(i) \o <<"}">>), i - 1)

\* seeded fault: range(maxlen, 2, -1), which never tries runs of two
shrink_above2(regex, maxlen) == ShrinkAbove2(regex, maxlen)

shrink(regex, maxlen) == ShrinkFrom(regex, maxlen)

\* seeded fault: the contiguous class is emitted without its '-'
PositionRegex_noDash(sc, ec) ==
    IF sc = ec THEN <<sc>> ELSE <<"[", sc, ec, "]">>

\* one iteration of the loop of lines 203-209
PositionRegex(sc, ec) ==
    IF sc = ec THEN <<sc>>
    ELSE IF 1 + DigitVal(sc) = DigitVal(ec) THEN <<"[", sc, ec, "]">>
    ELSE <<"[", sc, "-", ec, "]">>

individual_regex(s, e) ==
    shrink(Flatten([i \in 1..Len(s) |-> PositionRegex(s[i], e[i])]), Len(e))

ranges_to_regexes(ranges) ==
    [i \in 1..Len(ranges) |-> individual_regex(ranges[i][1], ranges[i][2])]

\* seeded fault: the swap written as s1, e1 = e1, e1
NormalizedBounds_dup(s, e) ==
    LET s1 == IntOf(s)
        e1 == IntOf(e)
    IN  IF s1 > e1 THEN <<Str(e1), Str(e1)>> ELSE <<Str(s1), Str(e1)>>

\* the bounds after the swap of lines 218-221, as the pair of strings (s1, e1)
NormalizedBounds(s, e) ==
    LET s1 == IntOf(s)
        e1 == IntOf(e)
    IN  IF s1 > e1 THEN <<Str(e1), Str(s1)>> ELSE <<Str(s1), Str(e1)>>

range_to_regexes(s, e) ==
    LET b == NormalizedBounds(s, e)
    IN  ranges_to_regexes(break_into_ranges(b[1], b[2]))

(***************************************************************************)
(* PowerOfTenCollapser: collapse_powers_of_10.                             *)
(***************************************************************************)
NonZeroDigit == <<"[", "1", "-", "9", "]">>

\* the state of the loop of lines 235-240
CollapseInit == [p10start |-> -1, p10end |-> -1, starts_with_0 |-> FALSE,
                 regexes2 |-> <<>>]

\* newregex of lines 263-276
NewRegex(acc) ==
    IF acc.starts_with_0
    THEN AnyDigit \o (IF 1 <= acc.p10end
                      THEN <<"{", "1", ",">> \o Str(1 + acc.p10end) \o <<"}">>
                      ELSE <<>>)
    ELSE NonZeroDigit
         \o (IF 1 <= acc.p10end THEN AnyDigit ELSE <<>>)
         \o (IF 0 = acc.p10start /\ 1 = acc.p10end THEN <<"?">>
             ELSE IF acc.p10start = acc.p10end /\ 1 < acc.p10start
                  THEN <<"{">> \o Str(acc.p10start) \o <<"}">>
             ELSE IF acc.p10start < acc.p10end
                  THEN <<"{">> \o Str(acc.p10start) \o <<",">>
                       \o Str(acc.p10end) \o <<"}">>
             ELSE <<>>)

\* one iteration of the loop of lines 241-281
CollapseStep(acc, regex) ==
    LET n == IntOf(SubSeq(regex, Len(NonZeroDigit \o AnyDigit) + 2, Len(regex) - 1))
    IN  IF regex = AnyDigit
        THEN [acc EXCEPT !.p10start = 0, !.p10end = 0, !.starts_with_0 = TRUE]
        ELSE IF regex = NonZeroDigit
        THEN [acc EXCEPT !.p10start = 0, !.p10end = 0]
        ELSE IF regex = NonZeroDigit \o AnyDigit
        THEN [acc EXCEPT !.p10start = IF @ < 0 THEN 1 ELSE @, !.p10end = 1]
        ELSE IF StartsWith(regex, NonZeroDigit \o AnyDigit \o <<"{">>)
        THEN [acc EXCEPT !.p10start = IF @ < 0 THEN n ELSE @, !.p10end = n]
        ELSE IF 0 <= acc.p10start
        THEN [acc EXCEPT !.p10start = -1, !.p10end = -1,
                         !.regexes2 = @ \o <<NewRegex(acc)>>
                                        \o (IF regex # <<>> THEN <<regex>> ELSE <<>>)]
        ELSE [acc EXCEPT !.regexes2 = @ \o (IF regex # <<>> THEN <<regex>> ELSE <<>>)]

RECURSIVE CollapseLoop(_, _)
CollapseLoop(acc, regexes) ==
    IF regexes = <<>> THEN acc
    ELSE CollapseLoop(CollapseStep(acc, Head(regexes)), Tail(regexes))

collapse_powers_of_10(regexes) ==
    CollapseLoop(CollapseInit, regexes \o << <<>> >>).regexes2

(***************************************************************************)
(* PrefixFactorizer: tokenize, rfr_tree.__init__, rfr_tree.collapse,       *)
(* rfr_tree.to_grid, rfr_tree.print_tree.                                  *)
(***************************************************************************)
\* 1-based index of the first occurrence of c in s at or after i, 0 if none
RECURSIVE FindChar(_, _, _)
FindChar(s, c, i) ==
    IF i > Len(s) THEN 0 ELSE IF s[i] = c THEN i ELSE FindChar(s, c, i + 1)

\* length matched at the start of r by (\d|\[[^\]]*\]), 0 for no match
HeadLen(r) ==
    IF r = <<>> THEN 0
    ELSE IF IsDigit(r[1]) THEN 1
    ELSE IF r[1] = "[" THEN FindChar(r, "]", 2)
    ELSE 0

\* length matched at the start of r by the optional (\?|\{[^}]*\})?
QuantLen(r) ==
    IF r = <<>> THEN 0
    ELSE IF r[1] = "?" THEN 1
    ELSE IF r[1] = "{" THEN FindChar(r, "}", 2)
    ELSE 0

\* reToken.match(r): the length of group(0), 0 when match() returns None
TokenLen(r) ==
    IF HeadLen(r) = 0 THEN 0 ELSE HeadLen(r) + QuantLen(From(r, HeadLen(r)))

RECURSIVE tokenize(_)
\* [ok, tokens]; ok is FALSE when reToken.match(r) is None, where
\* .group(0) raises AttributeError
tokenize(r) ==
    IF r = <<>> THEN [ok |-> TRUE, tokens |-> <<>>]
    ELSE IF TokenLen(r) = 0 THEN [ok |-> FALSE, tokens |-> <<>>]
    ELSE LET rest == tokenize(From(r, TokenLen(r)))
         IN  [ok |-> rest.ok,
              tokens |-> <<SubSeq(r, 1, TokenLen(r))>> \o rest.tokens]

\* the list roots of lines 63-68: the distinct heads in order of appearance
RECURSIVE Roots(_, _)
Roots(patterns, roots) ==
    IF patterns = <<>> THEN roots
    ELSE LET p == Head(patterns)
         IN  Roots(Tail(patterns),
                   IF p # <<>> /\ ~InList(p[1], roots)
                   THEN roots \o <<p[1]>> ELSE roots)

\* [p[1:] for p in patterns if p and root == p[0]]
RECURSIVE TailsOf(_, _)
TailsOf(root, patterns) ==
    IF patterns = <<>> THEN <<>>
    ELSE LET p == Head(patterns)
         IN  (IF p # <<>> /\ p[1] = root THEN <<Tail(p)>> ELSE <<>>)
             \o TailsOf(root, Tail(patterns))

\* seeded fault: the else branch of lines 69-70 left out
EmptyBranches_none(patterns) == <<>>

\* for the empty patterns of the list, one rfr_tree('', []) each (line 70)
RECURSIVE EmptyBranches(_)
EmptyBranches(patterns) ==
    IF patterns = <<>> THEN <<>>
    ELSE (IF Head(patterns) = <<>> THEN <<[node |-> <<>>, branches |-> <<>>]>>
          ELSE <<>>) \o EmptyBranches(Tail(patterns))

RECURSIVE rfr_tree(_, _)
\* rfr_tree.__init__: the object is the record [node, branches]
rfr_tree(key, patterns) ==
    IF Len(patterns) = 0 THEN [node |-> key, branches |-> <<>>]
    ELSE IF Len(patterns) = 1
    THEN LET pattern == patterns[1]
         IN  IF pattern = <<>> THEN [node |-> key, branches |-> <<>>]
             ELSE IF Tail(pattern) # <<>>
                  THEN [node |-> key,
                        branches |-> <<rfr_tree(pattern[1], <<Tail(pattern)>>)>>]
                  ELSE [node |-> key, branches |-> <<rfr_tree(pattern[1], <<>>)>>]
    ELSE LET roots == Roots(patterns, <<>>)
         IN  [node |-> key,
              branches |-> EmptyBranches(patterns)
                  \o [i \in 1..Len(roots) |->
                          rfr_tree(roots[i], TailsOf(roots[i], patterns))]]

\* b.remove(''): the list without its first empty string
RECURSIVE RemoveFirstEmpty(_)
RemoveFirstEmpty(b) ==
    IF b = <<>> THEN <<>>
    ELSE IF Head(b) = <<>> THEN Tail(b)
    ELSE <<Head(b)>> \o RemoveFirstEmpty(Tail(b))

RECURSIVE collapse(_)
\* rfr_tree.collapse
collapse(t) ==
    IF Len(t.branches) = 0 THEN t.node
    ELSE IF Len(t.branches) = 1 THEN t.node \o collapse(t.branches[1])
    ELSE LET b == [i \in 1..Len(t.branches) |-> collapse(t.branches[i])]
             b1 == RemoveFirstEmpty(b)
         IN  IF InList(<<>>, b)
             THEN IF Len(b1) = 1
                     /\ (Len(b1[1]) = 1
                         \/ (Len(b1[1]) <= 5 /\ StartsWith(b1[1], <<"[">>)
                             /\ EndsWith(b1[1], <<"]">>)))
                  THEN t.node \o b1[1] \o <<"?">>
                  ELSE t.node \o <<"(">> \o Join(<<"|">>, b1) \o <<")", "?">>
             ELSE t.node \o <<"(">> \o Join(<<"|">>, b) \o <<")">>

RECURSIVE to_grid(_)
\* rfr_tree.to_grid: a list of rows, each a list of node strings
to_grid(t) ==
    LET node == IF t.node = <<>> THEN <<".">> ELSE t.node
        sub == [i \in 1..Len(t.branches) |-> to_grid(t.branches[i])]
        rows == Flatten(sub)
    IN  IF t.branches # <<>>
        THEN [i \in 1..Len(rows) |-> <<node>> \o rows[i]]
        ELSE << <<node>> >>

\* one printed line: the format string of the print call and the values
\* substituted for its {} fields; print() is Line("", <<>>)
Line(text, args) == [text |-> text, args |-> args]

\* ' {}'.format(x) for every x of the list
Lines1(list) == [i \in 1..Len(list) |-> Line(" {}", <<list[i]>>)]

\* ' {}-{}'.format(s, e) for every pair of the list
Lines2(pairs) == [i \in 1..Len(pairs) |-> Line(" {}-{}", <<pairs[i][1], pairs[i][2]>>)]

\* seeded fault: range(len(prev_row)), without the min
RowRange_prevLen(row, prev_row) == Len(prev_row)

\* range(min(len(row), len(prev_row))) of line 115, as the number of indices
RowRange(row, prev_row) == Min(Len(row), Len(prev_row))

\* row[j] or prev_row[j] of line 116 is out of range: IndexError
RowRaises(row, prev_row) ==
    RowRange(row, prev_row) > Len(row) \/ RowRange(row, prev_row) > Len(prev_row)

\* out_row of lines 113-121
OutRow(row, prev_row) ==
    LET eq == {j \in 1..RowRange(row, prev_row) : row[j] = prev_row[j]}
        m == IF eq = {} THEN 0 ELSE CHOOSE j \in eq : \A k \in eq : k <= j
        blanked == [j \in 1..Len(row) |->
                       IF j \in eq THEN Repeat(<<" ">>, Len(row[j])) ELSE row[j]]
    IN  IF m >= 1
        THEN [blanked EXCEPT ![m] =
                 SubSeq(<<"+">> \o Repeat(<<"-">>, Len(blanked[m])), 1, Len(blanked[m]))]
        ELSE blanked

RECURSIVE PrintRows(_, _, _)
\* the loop of lines 109-125 from row i on, with the lines printed so far
PrintRows(grid, i, acc) ==
    IF i > Len(grid) THEN [raised |-> FALSE, lines |-> acc]
    ELSE IF i = 1
    THEN PrintRows(grid, 2, acc \o <<Line(" {}", <<Join(<<" ">>, grid[1])>>)>>)
    ELSE IF RowRaises(grid[i], grid[i - 1]) THEN [raised |-> TRUE, lines |-> acc]
    ELSE PrintRows(grid, i + 1,
             acc \o <<Line(" {}", <<Join(<<" ">>, OutRow(grid[i], grid[i - 1]))>>)>>)

\* rfr_tree.print_tree: [raised, lines]
print_tree(t) ==
    LET p == PrintRows(to_grid(t), 1,
                       <<Line("Parse into tree based on regex prefixes:", <<>>)>>)
    IN  IF p.raised THEN p
        ELSE [raised |-> FALSE, lines |-> p.lines \o <<Line("", <<>>)>>]

(***************************************************************************)
(* rfr and regex_for_range.  A call is the record [ret, out]: the string   *)
(* it returns and the lines it prints.                                     *)
(***************************************************************************)
\* the lines printed by break_into_ranges (181-194), range_to_regexes
\* (223-227) and collapse_powers_of_10 (282-286) when verbose
StageLines(b, r, c) ==
    <<Line("First, break into equal length ranges:", <<>>)>>
    \o Lines2(break_into_ranges_1(b[1], b[2]))
    \o <<Line("", <<>>), Line("Second, break into ranges that yield simple regexes:", <<>>)>>
    \o Lines2(break_into_ranges(b[1], b[2]))
    \o <<Line("", <<>>), Line("Turn each range into a regex:", <<>>)>>
    \o Lines1(r)
    \o <<Line("", <<>>), Line("Collapse adjacent powers of 10:", <<>>)>>
    \o Lines1(c)
    \o <<Line("", <<>>)>>

\* seeded fault: the factored string is used without the length test of
\* line 322
TryFactor_unchecked(c, s, v) ==
    [ret |-> lead_zeros \o collapse(rfr_tree(<<>>, [i \in 1..Len(c) |-> tokenize(c[i]).tokens])),
     out |-> <<>>]

\* the try block of lines 315-335 on the collapsed list c with the flat
\* string s: [ret, out]
TryFactor(c, s, v) ==
    LET tk == [i \in 1..Len(c) |-> tokenize(c[i])]
        tokensOk == \A i \in 1..Len(c) : tk[i].ok
        t2 == rfr_tree(<<>>, [i \in 1..Len(c) |-> tk[i].tokens])
        pt == print_tree(t2)
        s2 == lead_zeros \o collapse(t2)
        uhoh == <<Line(" Uh-oh -- problem creating parse tree.", <<>>), Line("", <<>>)>>
    IN  IF ~tokensOk THEN [ret |-> s, out |-> IF v THEN uhoh ELSE <<>>]
        ELSE IF v /\ pt.raised THEN [ret |-> s, out |-> pt.lines \o uhoh]
        ELSE [ret |-> IF Len(s2) < Len(s) THEN s2 ELSE s,
              out |-> IF v
                      THEN pt.lines
                           \o <<Line("Turning the parse tree into a regex yields:", <<>>),
                               Line(" {}", <<s2>>), Line("", <<>>),
                               Line("We choose the shorter one as our result.", <<>>),
                               Line("", <<>>)>>
                      ELSE <<>>]

\* seeded fault: line 307 joins the Alternatives without the enclosing group
rfr_from_ungrouped(c, v, pre) ==
    LET s == lead_zeros \o Join(<<"|">>, c)
    IN  IF Len(c) = 1 THEN [ret |-> lead_zeros \o c[1], out |-> pre]
        ELSE [ret |-> TryFactor(c, s, v).ret, out |-> pre]

\* lines 305-336 of rfr on the collapsed list c, after the lines pre printed
\* by the earlier stages: [ret, out]
rfr_from(c, v, pre) ==
    LET s == lead_zeros \o <<"(">> \o Join(<<"|">>, c) \o <<")">>
        f == TryFactor(c, s, v)
    IN  IF Len(c) = 1 THEN [ret |-> lead_zeros \o c[1], out |-> pre]
        ELSE IF InList("|", s)
        THEN [ret |-> f.ret,
              out |-> pre \o (IF v
                              THEN <<Line("Combining the regexes above yields:", <<>>),
                                     Line(" {}", <<s>>), Line("", <<>>),
                                     Line("Next we'll try factoring out common prefixes using a tree:", <<>>)>>
                              ELSE <<>>)
                          \o f.out]
        ELSE [ret |-> s, out |-> pre]

\* rfr(start, end, verbose) for ints start and end
rfr(a, b, v) ==
    LET bounds == NormalizedBounds(Str(a), Str(b))
        r == range_to_regexes(Str(a), Str(b))
        c == collapse_powers_of_10(r)
    IN  rfr_from(c, v, IF v THEN StageLines(bounds, r, c) ELSE <<>>)

regex_for_range(a, b, v) == rfr(a, b, v)

(***************************************************************************)
(* SignWrapper: RegexForRange.__repr__.  A call is the record              *)
(* [outcome, raise_line, ret, calls]: whether it returned or raised, the   *)
(* line of the raise, the string returned and the engine calls it made.    *)
(***************************************************************************)
\* regex_for_range(x, y, False) as called by __repr__
E(x, y) == regex_for_range(x, y, FALSE).ret

Returned(ret, engineCalls) ==
    [outcome |-> "returned", raise_line |-> 0, ret |-> ret, calls |-> engineCalls]

Raised(line) ==
    [outcome |-> "AssertionError", raise_line |-> line, ret |-> <<>>, calls |-> <<>>]

\* seeded fault: the negative part of [s, 0] compiled from 0 instead of from 1
SignCases_negFromZero(s, e) ==
    IF s > 0 THEN Returned(<<>> \o E(s, e), << <<s, e>> >>)
    ELSE IF s = 0 /\ e > 0
         THEN Returned(<<"(", "0", "|">> \o E(1, e) \o <<")">>, << <<1, e>> >>)
    ELSE IF s = 0 /\ e = 0 THEN Returned(<<"0">>, <<>>)
    ELSE IF s < 0 /\ e = 0
         THEN Returned(<<"(", "-">> \o E(0, -s) \o <<")">>, << <<0, -s>> >>)
    ELSE IF s < 0 /\ e < 0
         THEN Returned(<<"(", "-">> \o E(-e, -s) \o <<")">>, << <<-e, -s>> >>)
    ELSE IF s < 0 /\ e > 0
         THEN Returned(<<"(", "-">> \o E(1, -s) \o <<"|", "0", "|">> \o E(1, e) \o <<")">>,
                       << <<1, -s>>, <<1, e>> >>)
    ELSE Raised(378)

\* seeded fault: in the case start < 0, end = 0 the literal 0 is put last
SignCases_zeroLast(s, e) ==
    IF s > 0 THEN Returned(<<>> \o E(s, e), << <<s, e>> >>)
    ELSE IF s = 0 /\ e > 0
         THEN Returned(<<"(", "0", "|">> \o E(1, e) \o <<")">>, << <<1, e>> >>)
    ELSE IF s = 0 /\ e = 0 THEN Returned(<<"0">>, <<>>)
    ELSE IF s < 0 /\ e = 0
         THEN Returned(<<"(", "-">> \o E(1, -s) \o <<"|", "0", ")">>, << <<1, -s>> >>)
    ELSE IF s < 0 /\ e < 0
         THEN Returned(<<"(", "-">> \o E(-e, -s) \o <<")">>, << <<-e, -s>> >>)
    ELSE IF s < 0 /\ e > 0
         THEN Returned(<<"(", "-">> \o E(1, -s) \o <<"|", "0", "|">> \o E(1, e) \o <<")">>,
                       << <<1, -s>>, <<1, e>> >>)
    ELSE Raised(378)

\* seeded fault: the case start = end = 0 is missing
SignCases_noZero(s, e) ==
    IF s > 0 THEN Returned(<<>> \o E(s, e), << <<s, e>> >>)
    ELSE IF s = 0 /\ e > 0
         THEN Returned(<<"(", "0", "|">> \o E(1, e) \o <<")">>, << <<1, e>> >>)
    ELSE IF s < 0 /\ e = 0
         THEN Returned(<<"(", "0", "|", "-">> \o E(1, -s) \o <<")">>, << <<1, -s>> >>)
    ELSE IF s < 0 /\ e < 0
         THEN Returned(<<"(", "-">> \o E(-e, -s) \o <<")">>, << <<-e, -s>> >>)
    ELSE IF s < 0 /\ e > 0
         THEN Returned(<<"(", "-">> \o E(1, -s) \o <<"|", "0", "|">> \o E(1, e) \o <<")">>,
                       << <<1, -s>>, <<1, e>> >>)
    ELSE Raised(378)

\* seeded fault: the positive case wrapped in brackets like the other cases
SignCases_bracketed(s, e) ==
    IF s > 0 THEN Returned(<<"(">> \o E(s, e) \o <<")">>, << <<s, e>> >>)
    ELSE IF s = 0 /\ e > 0
         THEN Returned(<<"(", "0", "|">> \o E(1, e) \o <<")">>, << <<1, e>> >>)
    ELSE IF s = 0 /\ e = 0 THEN Returned(<<"0">>, <<>>)
    ELSE IF s < 0 /\ e = 0
         THEN Returned(<<"(", "0", "|", "-">> \o E(1, -s) \o <<")">>, << <<1, -s>> >>)
    ELSE IF s < 0 /\ e < 0
         THEN Returned(<<"(", "-">> \o E(-e, -s) \o <<")">>, << <<-e, -s>> >>)
    ELSE IF s < 0 /\ e > 0
         THEN Returned(<<"(", "-">> \o E(1, -s) \o <<"|", "0", "|">> \o E(1, e) \o <<")">>,
                       << <<1, -s>>, <<1, e>> >>)
    ELSE Raised(378)

\* lines 365-378: the cases by the signs of the bounds
SignCases(s, e) ==
    IF s > 0 THEN Returned(<<>> \o E(s, e), << <<s, e>> >>)
    ELSE IF s = 0 /\ e > 0
         THEN Returned(<<"(", "0", "|">> \o E(1, e) \o <<")">>, << <<1, e>> >>)
    ELSE IF s = 0 /\ e = 0 THEN Returned(<<"0">>, <<>>)
    ELSE IF s < 0 /\ e = 0
         THEN Returned(<<"(", "0", "|", "-">> \o E(1, -s) \o <<")">>, << <<1, -s>> >>)
    ELSE IF s < 0 /\ e < 0
         THEN Returned(<<"(", "-">> \o E(-e, -s) \o <<")">>, << <<-e, -s>> >>)
    ELSE IF s < 0 /\ e > 0
         THEN Returned(<<"(", "-">> \o E(1, -s) \o <<"|", "0", "|">> \o E(1, e) \o <<")">>,
                       << <<1, -s>>, <<1, e>> >>)
    ELSE Raised(378)

\* seeded fault: reversed bounds are swapped instead of rejected
RegexForRange_swap(s, e) == IF s > e THEN SignCases(e, s) ELSE SignCases(s, e)

\* RegexForRange(s, e).__repr__()
RegexForRange(s, e) == IF s > e THEN Raised(363) ELSE SignCases(s, e)

\* lines 905 and 909: one member pattern of a union, anchored inside its own group
union_member(utpatt) == <<"(", "^">> \o utpatt \o <<"$", ")">>

\* line 912: the pattern of a union whose member patterns are upatt
union_pattern(upatt) == Join(<<"|">>, [i \in 1..Len(upatt) |-> union_member(upatt[i])])

(***************************************************************************)
(* The language of a regular expression of the dialect the compiler emits  *)
(* (literal characters, bracket classes, groups, alternation and the       *)
(* quantifiers ?, {n} and {m,n}): the set of strings that match it in      *)
(* full-string (anchored) mode.  These definitions give the properties     *)
(* their meaning; they model no code of the compiler, which never compiles *)
(* the expressions it returns.                                             *)
(***************************************************************************)
Concat(A, B) == {x \o y : x \in A, y \in B}

RECURSIVE Power(_, _)
Power(L, k) == IF k = 0 THEN {<<>>} ELSE Concat(L, Power(L, k - 1))

RECURSIVE ClassItems(_, _, _)
\* the characters of a bracket class whose items start at position p
ClassItems(r, p, acc) ==
    IF p > Len(r) THEN [set |-> acc, pos |-> p]
    ELSE IF r[p] = "]" THEN [set |-> acc, pos |-> p + 1]
    ELSE IF p + 2 <= Len(r) /\ r[p + 1] = "-" /\ r[p + 2] # "]"
         THEN ClassItems(r, p + 3,
                  acc \cup {Digit[d + 1] : d \in DigitVal(r[p])..DigitVal(r[p + 2])})
    ELSE ClassItems(r, p + 1, acc \cup {r[p]})

\* a quantifier at position p, if any, applied to the language L
ParseQuant(r, p, L) ==
    IF p > Len(r) THEN [lang |-> L, pos |-> p]
    ELSE IF r[p] = "?" THEN [lang |-> L \cup {<<>>}, pos |-> p + 1]
    ELSE IF r[p] = "{"
    THEN LET close == FindChar(r, "}", p)
             body == SubSeq(r, p + 1, close - 1)
             comma == FindChar(body, ",", 1)
             lo == IF comma = 0 THEN IntOf(body) ELSE IntOf(SubSeq(body, 1, comma - 1))
             hi == IF comma = 0 THEN IntOf(body) ELSE IntOf(From(body, comma))
         IN  [lang |-> UNION {Power(L, k) : k \in lo..hi}, pos |-> close + 1]
    ELSE [lang |-> L, pos |-> p]

RECURSIVE ParseExpr(_, _)
RECURSIVE ParseSeq(_, _)
RECURSIVE ParseAtom(_, _)

ParseAtom(r, p) ==
    IF r[p] = "("
    THEN LET e == ParseExpr(r, p + 1)
         IN  [lang |-> e.lang, pos |-> e.pos + 1,
              ok |-> e.ok /\ e.pos <= Len(r) /\ r[e.pos] = ")"]
    ELSE IF r[p] = "["
    THEN LET c == ClassItems(r, p + 1, {})
         IN  [lang |-> {<<ch>> : ch \in c.set}, pos |-> c.pos, ok |-> c.pos <= Len(r) + 1]
    ELSE [lang |-> {<<r[p]>>}, pos |-> p + 1, ok |-> r[p] \notin {"?", "{", "}", "]"}]

ParseSeq(r, p) ==
    IF p > Len(r) \/ r[p] \in {"|", ")"} THEN [lang |-> {<<>>}, pos |-> p, ok |-> TRUE]
    ELSE LET a == ParseAtom(r, p)
             q == ParseQuant(r, a.pos, a.lang)
             rest == ParseSeq(r, q.pos)
         IN  [lang |-> Concat(q.lang, rest.lang), pos |-> rest.pos,
              ok |-> a.ok /\ rest.ok]

ParseExpr(r, p) ==
    LET a == ParseSeq(r, p)
    IN  IF a.pos <= Len(r) /\ r[a.pos] = "|"
        THEN LET rest == ParseExpr(r, a.pos + 1)
             IN  [lang |-> a.lang \cup rest.lang, pos |-> rest.pos,
                  ok |-> a.ok /\ rest.ok]
        ELSE a

\* the expression compiles: it is consumed whole, with balanced groups
Compiles(r) == LET e == ParseExpr(r, 1) IN e.ok /\ e.pos = Len(r) + 1

\* the set of strings the expression matches anchored
Lang(r) == ParseExpr(r, 1).lang

(***************************************************************************)
(* The calls.  One behaviour is one call of one entry point on one         *)
(* interval.                                                               *)
(***************************************************************************)
Abs(n) == IF n < 0 THEN -n ELSE n

RECURSIVE DigitsIn(_, _)
DigitsIn(n, D) == IF n < 10 THEN n \in D ELSE (n % 10) \in D /\ DigitsIn(n \div 10, D)

Vals == {v \in -MaxVal..MaxVal : Abs(v) <= MaxDense \/ DigitsIn(Abs(v), ProbeDigits)}

Init ==
    /\ start \in Vals
    /\ end \in Vals
    /\ verbose = FALSE
    /\ entry = "none"
    /\ outcome = "pending"
    /\ raise_line = 0
    /\ result = <<>>
    /\ calls = <<>>
    /\ stdout = <<>>
    /\ globals_break_into_ranges = [defined |-> FALSE, verbose |-> FALSE]
    /\ inv = <<>>
    /\ frames = <<>>

\* seeded fault: line 198 left out
BindGlobal_none(v) == [defined |-> FALSE, verbose |-> FALSE]

\* the value line 198 binds to the module-level name break_into_ranges: the
\* closure of the call, which holds the verbose argument of that call
BindGlobal(v) == [defined |-> TRUE, verbose |-> v]

\* repr(RegexForRange(start, end)); every engine call it makes passes
\* verbose = False, prints nothing and rebinds globals()['break_into_ranges']
Repr ==
    /\ outcome = "pending"
    /\ \E c \in {RegexForRange(start, end)} :
           /\ entry' = "repr"
           /\ outcome' = c.outcome
           /\ raise_line' = c.raise_line
           /\ result' = c.ret
           /\ calls' = c.calls
           /\ globals_break_into_ranges' =
                  IF c.calls = <<>> THEN globals_break_into_ranges
                  ELSE BindGlobal(FALSE)
    /\ UNCHANGED <<start, end, verbose, stdout, inv, frames>>

\* regex_for_range(start, end, v) called directly on non-negative bounds
Engine(v) ==
    /\ outcome = "pending"
    /\ start >= 0
    /\ end >= 0
    /\ \E c \in {regex_for_range(start, end, v)} :
           /\ entry' = "engine"
           /\ verbose' = v
           /\ outcome' = "returned"
           /\ result' = c.ret
           /\ calls' = << <<start, end>> >>
           /\ stdout' = stdout \o c.out
           /\ globals_break_into_ranges' = BindGlobal(v)
    /\ UNCHANGED <<start, end, raise_line, inv, frames>>

Next == Repr \/ \E v \in BOOLEAN : Engine(v)

Spec == Init /\ [][Next]_vars

(***************************************************************************)
(* Concurrent invocations.  MaxThreads call sites each make one call       *)
(* regex_for_range(a, b) with the default verbose = False, as every call   *)
(* of the repository does (RegexForRange.__repr__, lines 366-376), and     *)
(* their steps interleave freely.  A step is one stage of the pipeline;    *)
(* the state an invocation shares with the others is the module namespace: *)
(* globals()['break_into_ranges'], which it writes on entry (line 198),    *)
(* and lead_zeros (line 347), which it reads at lines 306, 307 and 321.    *)
(* Everything else lives in the activation record of the invocation.       *)
(***************************************************************************)
Threads == 1..MaxThreads

\* the intervals the call sites choose from
ConcIntervals == {<<9, 91>>, <<0, 150>>, <<100, 1>>}

\* seeded fault: the intermediate structures kept in one module-level record
Frame_shared(t) == 1

\* the activation record of invocation t: a call of regex_for_range creates
\* its own locals and closures (lines 40-344)
Frame(t) == t

EmptyFrame == [start |-> 0, end |-> 0, bir |-> <<>>, r |-> <<>>, c |-> <<>>, s |-> <<>>]

\* some other invocation is between its entry and its return
Overlaps(t) == \E u \in Threads : u # t /\ inv[u].pc \notin {"call", "done"}

ConcInit ==
    /\ start = 0 /\ end = 0 /\ verbose = FALSE
    /\ entry = "none" /\ outcome = "pending" /\ raise_line = 0
    /\ result = <<>> /\ calls = <<>> /\ stdout = <<>>
    /\ globals_break_into_ranges = [defined |-> FALSE, verbose |-> FALSE]
    /\ inv \in [Threads -> {[pc |-> "call", a |-> iv[1], b |-> iv[2], ret |-> <<>>,
                            overlapped |-> FALSE] : iv \in ConcIntervals}]
    /\ frames = [f \in Threads |-> EmptyFrame]

\* invocation t moves to position p
Goto(t, p) ==
    inv' = [inv EXCEPT ![t].pc = p, ![t].overlapped = @ \/ Overlaps(t)]

\* lines 40-198: the call binds its arguments and defines its closures, and
\* line 198 rebinds the module-level name break_into_ranges
Enter(t) ==
    /\ inv[t].pc = "call"
    /\ frames' = [frames EXCEPT ![Frame(t)] =
                     [EmptyFrame EXCEPT !.start = inv[t].a, !.end = inv[t].b]]
    /\ globals_break_into_ranges' = BindGlobal(FALSE)
    /\ Goto(t, "split")
    /\ UNCHANGED <<start, end, verbose, entry, outcome, raise_line, result, calls, stdout>>

\* lines 218-222: the bounds are ordered and break_into_ranges, reached
\* through the closure of this invocation, builds the list bir
Split(t) ==
    /\ inv[t].pc = "split"
    /\ \E nb \in {NormalizedBounds(Str(frames[Frame(t)].start), Str(frames[Frame(t)].end))} :
           frames' = [frames EXCEPT ![Frame(t)].bir = break_into_ranges(nb[1], nb[2])]
    /\ Goto(t, "build")
    /\ UNCHANGED <<start, end, verbose, entry, outcome, raise_line, result, calls, stdout,
                   globals_break_into_ranges>>

\* line 222: ranges_to_regexes
Build(t) ==
    /\ inv[t].pc = "build"
    /\ frames' = [frames EXCEPT ![Frame(t)].r = ranges_to_regexes(frames[Frame(t)].bir)]
    /\ Goto(t, "collapse")
    /\ UNCHANGED <<start, end, verbose, entry, outcome, raise_line, result, calls, stdout,
                   globals_break_into_ranges>>

\* line 304: collapse_powers_of_10
Collapse(t) ==
    /\ inv[t].pc = "collapse"
    /\ frames' = [frames EXCEPT ![Frame(t)].c = collapse_powers_of_10(frames[Frame(t)].r)]
    /\ Goto(t, "factor")
    /\ UNCHANGED <<start, end, verbose, entry, outcome, raise_line, result, calls, stdout,
                   globals_break_into_ranges>>

\* lines 305-336: the flat string and the factored one, both prefixed with
\* the module-level lead_zeros
Factor(t) ==
    /\ inv[t].pc = "factor"
    /\ frames' = [frames EXCEPT ![Frame(t)].s = rfr_from(frames[Frame(t)].c, FALSE, <<>>).ret]
    /\ Goto(t, "return")
    /\ UNCHANGED <<start, end, verbose, entry, outcome, raise_line, result, calls, stdout,
                   globals_break_into_ranges>>

\* lines 336 and 344: the string goes back to the call site
Return(t) ==
    /\ inv[t].pc = "return"
    /\ inv' = [inv EXCEPT ![t].pc = "done", ![t].ret = frames[Frame(t)].s,
                          ![t].overlapped = @ \/ Overlaps(t)]
    /\ UNCHANGED <<start, end, verbose, entry, outcome, raise_line, result, calls, stdout,
                   globals_break_into_ranges, frames>>

ConcNext ==
    \E t \in Threads :
       \/ Enter(t)
       \/ Split(t)
       \/ Build(t)
       \/ Collapse(t)
       \/ Factor(t)
       \/ Return(t)

ConcSpec == ConcInit /\ [][ConcNext]_vars

(***************************************************************************)
(* Properties.                                                             *)
(***************************************************************************)
\* the canonical decimal strings of the integers of the interval [a, b]
Canonical(a, b) == {Str(x) : x \in a..b}

ReprReturned == entry = "repr" /\ outcome = "returned"

\* C1: Exact match.  Whenever RegexForRange(start, end).__repr__ has
\* returned for start <= end, the string it returned compiles and matches,
\* anchored, exactly the canonical decimal strings of the integers of
\* [start, end], and nothing else.
C1_ExactMatch ==
    ReprReturned => Compiles(result) /\ Lang(result) = Canonical(start, end)

\* a state reached by C1: a zero-crossing interval whose expression accepts
\* both bounds and rejects the integers just outside
C1_Witness ==
    /\ ReprReturned /\ start < -100 /\ end > 100
    /\ Str(start) \in Lang(result) /\ Str(end) \in Lang(result)
    /\ Str(start - 1) \notin Lang(result) /\ Str(end + 1) \notin Lang(result)

\* w is '-' followed by a string that starts with '0'
NegativeZero(w) == Len(w) >= 2 /\ w[1] = "-" /\ w[2] = "0"

\* C2: No negative zero.  Whatever RegexForRange(start, end).__repr__
\* returns matches neither "-0" nor any other string made of '-' followed
\* by a string that starts with '0'.
C2_NoNegativeZero ==
    ReprReturned => \A w \in Lang(result) : ~NegativeZero(w)

\* a state reached by C2: start < 0 and end = 0, where 0 and -1 match
C2_Witness ==
    /\ ReprReturned /\ start < 0 /\ end = 0
    /\ <<"0">> \in Lang(result) /\ <<"-", "1">> \in Lang(result)
    /\ <<"-", "0">> \notin Lang(result)

\* w has a leading '0' followed by further characters
LeadingZero(w) == Len(w) >= 2 /\ w[1] = "0"

\* the SubRanges break_into_ranges emits for the engine call (a, b)
TopSubRanges(a, b) ==
    LET nb == NormalizedBounds(Str(a), Str(b))
    IN  break_into_ranges(nb[1], nb[2])

\* C3: No leading zeros.  For a non-negative interval the expression
\* RegexForRange returns matches no string with a leading '0' followed by
\* further digits, and for every engine call made with bounds >= 1 both
\* strings of every SubRange emitted at the top level start with a
\* non-zero digit.
C3_NoLeadingZeros ==
    /\ (ReprReturned /\ start >= 0) => \A w \in Lang(result) : ~LeadingZero(w)
    /\ outcome = "returned" =>
         \A i \in 1..Len(calls) :
            (calls[i][1] >= 1 /\ calls[i][2] >= 1) =>
               \A k \in 1..Len(TopSubRanges(calls[i][1], calls[i][2])) :
                  LET sr == TopSubRanges(calls[i][1], calls[i][2])[k]
                  IN  sr[1][1] # "0" /\ sr[2][1] # "0"

\* a state reached by C3: a three-digit interval whose bounds share the
\* leading digit and whose tails ("0x" and "yz", y > 0) are split at 9 | 10,
\* where str_bp pads the break point to "09"; no padded string is matched
C3_Witness ==
    /\ ReprReturned /\ start >= 100 /\ end <= 999
    /\ Str(start)[1] = Str(end)[1]
    /\ Str(start)[2] = "0" /\ ~TailZeros(Str(start)) /\ Str(end)[2] # "0"
    /\ str_bp(9) = <<<<"0", "9">>, <<"1", "0">>>>
    /\ \A w \in Lang(result) : Len(w) = 3 /\ w[1] # "0"

\* the expression the sign table of RegexForRange.__repr__ prescribes
SignShape(s, e) ==
    CASE s > 0 -> E(s, e)
      [] s = 0 /\ e > 0 -> <<"(", "0", "|">> \o E(1, e) \o <<")">>
      [] s = 0 /\ e = 0 -> <<"0">>
      [] s < 0 /\ e = 0 -> <<"(", "0", "|", "-">> \o E(1, -s) \o <<")">>
      [] s < 0 /\ e < 0 -> <<"(", "-">> \o E(-e, -s) \o <<")">>
      [] s < 0 /\ e > 0 ->
            <<"(", "-">> \o E(1, -s) \o <<"|", "0", "|">> \o E(1, e) \o <<")">>

\* C4: Sign decomposition.  For start <= end the string returned is the one
\* of the sign table, built from the engine results E; the engine is called
\* at most twice and never with a bound below 1.
C4_SignDecomposition ==
    ReprReturned =>
       /\ result = SignShape(start, end)
       /\ Len(calls) <= 2
       /\ \A i \in 1..Len(calls) : calls[i][1] >= 1 /\ calls[i][2] >= 1

\* a state reached by C4: start < 0 < end, two engine calls
C4_Witness ==
    /\ ReprReturned /\ start < 0 /\ end > 0
    /\ calls = << <<1, -start>>, <<1, end>> >>
    /\ result # <<>>

\* the call RegexForRange(start, end).__repr__ is over, by return or raise
ReprDone == entry = "repr" /\ outcome # "pending"

\* the original statement of C5: given reversed bounds the signed entry
\* point returns an expression with the language of the ordered interval
C5_Original ==
    (ReprDone /\ start > end) =>
       /\ outcome = "returned"
       /\ Lang(result) = Lang(RegexForRange(end, start).ret)

\* C5 (amended): Swap tolerance holds for the engine, not for the signed
\* entry point.  regex_for_range called with start > end returns an
\* expression that accepts exactly the language of regex_for_range(end,
\* start), while RegexForRange(start, end).__repr__ with start > end
\* normalizes nothing and raises AssertionError.
C5_SwapTolerance ==
    /\ (entry = "engine" /\ start > end) =>
          /\ Compiles(result)
          /\ Lang(result) = Lang(regex_for_range(end, start, FALSE).ret)
    /\ (ReprDone /\ start > end) => outcome = "AssertionError"

\* a state reached by C5: the engine called with reversed bounds of
\* different lengths, accepting the ordered interval
C5_Witness ==
    /\ entry = "engine" /\ start > 100 /\ end >= 1 /\ end < 10
    /\ Lang(result) = Canonical(end, start)

\* C6: Ordering precondition.  RegexForRange(start, end).__repr__ with
\* start > end raises AssertionError at its first statement, with no engine
\* call made (none recorded, globals()['break_into_ranges'] not bound) and
\* no string returned; with start <= end it returns a string and raises
\* nothing, so the final error branch is not reached.
C6_OrderingPrecondition ==
    ReprDone =>
       IF start > end
       THEN /\ outcome = "AssertionError" /\ raise_line = 363
            /\ calls = <<>> /\ result = <<>>
            /\ ~globals_break_into_ranges.defined
       ELSE /\ outcome = "returned" /\ raise_line = 0
            /\ result # <<>>

\* a state reached by C6: the call on reversed bounds has raised
C6_Witness ==
    /\ entry = "repr" /\ start > end
    /\ outcome = "AssertionError" /\ raise_line = 363

\* C7: Order independence of the engine.  For bounds >= 1 the string
\* regex_for_range(start, end) has returned is identical to the string
\* regex_for_range(end, start) returns.
C7_OrderIndependence ==
    (entry = "engine" /\ start >= 1 /\ end >= 1) =>
       result = regex_for_range(end, start, verbose).ret

\* a state reached by C7: reversed bounds and a result of several
\* alternatives
C7_Witness ==
    /\ entry = "engine" /\ start > end /\ end >= 1
    /\ InList("|", result)

\* C8: Boundary literals.  compile(0,0) is "0", compile(0,9) is
\* "(0|[1-9])", compile(1,9) is "[1-9]", and compile(n,n) for n >= 1 is the
\* decimal string of n, made of digits only.
C8_BoundaryLiterals ==
    ReprReturned =>
       /\ (start = 0 /\ end = 0) => result = <<"0">>
       /\ (start = 0 /\ end = 9) =>
             result = <<"(", "0", "|", "[", "1", "-", "9", "]", ")">>
       /\ (start = 1 /\ end = 9) => result = <<"[", "1", "-", "9", "]">>
       /\ (start = end /\ start >= 1) =>
             /\ result = Str(start)
             /\ \A i \in 1..Len(result) : IsDigit(result[i])

\* a state reached by C8: the single-point interval of a three-digit n
C8_Witness ==
    /\ ReprReturned /\ start = end /\ start >= 100
    /\ Len(result) = 3

\* the number of groups open after the first i characters of r
Depth(r, i) ==
    Cardinality({k \in 1..i : r[k] = "("}) - Cardinality({k \in 1..i : r[k] = ")"})

\* r begins with '(' and its last character is the ')' that closes it
Bracketed(r) ==
    /\ Len(r) >= 2
    /\ r[1] = "("
    /\ r[Len(r)] = ")"
    /\ \A i \in 1..(Len(r) - 1) : Depth(r, i) >= 1
    /\ Depth(r, Len(r)) = 0

\* C9: Whole expression is bracketed.  The string RegexForRange.__repr__
\* returns begins with '(' and ends with the ')' that closes it.
C9_Bracketed == ReprReturned => Bracketed(result)

\* C10: Verbose independence.  The string regex_for_range(start, end,
\* verbose) has returned is identical to the string the call returns with
\* the opposite value of verbose.
C10_VerboseIndependence ==
    entry = "engine" =>
       result = regex_for_range(start, end, ~verbose).ret

\* a state reached by C10: a verbose call that printed the prefix tree and
\* returned the factored string, which is not the flat '(A|B|...)'
C10_Witness ==
    /\ entry = "engine" /\ verbose
    /\ InList(Line("Parse into tree based on regex prefixes:", <<>>), stdout)
    /\ InList("|", result) /\ result[1] # "("


\* C11: Concurrent invocation is safe.  However the steps of the concurrent
\* invocations interleave, each invocation that has returned has returned
\* exactly the string regex_for_range returns for its arguments when it runs
\* alone.
C11_ConcurrentSafe ==
    \A t \in Threads :
       inv[t].pc = "done" => inv[t].ret = regex_for_range(inv[t].a, inv[t].b, FALSE).ret

\* a state reached by C11: every invocation has returned, two of them on
\* different intervals, and each ran while another was between its entry
\* and its return
C11_Witness ==
    /\ \A t \in Threads : inv[t].pc = "done" /\ inv[t].overlapped
    /\ <<inv[1].a, inv[1].b>> # <<inv[2].a, inv[2].b>>
    /\ inv[1].ret # inv[2].ret

\* the original statement of C12: a call that has returned has left the
\* module-level state as it was before the call, with no break_into_ranges
\* bound in the module namespace
C12_Original ==
    outcome = "returned" =>
       globals_break_into_ranges = [defined |-> FALSE, verbose |-> FALSE]

\* C12 (amended): No persistent state but the testing hook.  A call leaves
\* the module-level state unchanged except for the name break_into_ranges:
\* every regex_for_range call rebinds it to the closure of that call, which
\* holds the verbose argument of the call and stays reachable after the
\* return.  A __repr__ call that makes no engine call binds nothing, and
\* nothing is printed unless verbose is set.
C12_OnlyTestingHook ==
    /\ entry = "engine" =>
          /\ globals_break_into_ranges = [defined |-> TRUE, verbose |-> verbose]
          /\ (~verbose => stdout = <<>>)
    /\ (entry = "repr" /\ outcome # "pending") =>
          /\ globals_break_into_ranges = [defined |-> calls # <<>>, verbose |-> FALSE]
          /\ stdout = <<>>
    /\ entry = "none" => globals_break_into_ranges = [defined |-> FALSE, verbose |-> FALSE]

\* a state reached by C12: a verbose engine call has returned and the
\* closure it bound, holding verbose = True, is still in the module namespace
C12_Witness ==
    /\ entry = "engine" /\ outcome = "returned" /\ verbose
    /\ globals_break_into_ranges.defined /\ globals_break_into_ranges.verbose
    /\ result # <<>>

\* a direct engine call has returned
EngineReturned == entry = "engine" /\ outcome = "returned"

\* the bounds of the engine call as range_to_regexes orders them
Lo == IF start <= end THEN start ELSE end

Hi == IF start <= end THEN end ELSE start

\* the equal-length bands of the engine call
Bir1 == break_into_ranges_1(Str(Lo), Str(Hi))

\* the SubRanges of the engine call
Bir == break_into_ranges(Str(Lo), Str(Hi))

\* C13: Stage A equal-length partition.  For 0 <= a <= b,
\* break_into_ranges_1(a, b) returns len(str(b)) - len(str(a)) + 1 pairs in
\* ascending order, the first starting at a and the last ending at b, each
\* cut being 10^k - 1 followed by 10^k, and the two strings of every pair
\* have the same length.
C13_StageA ==
    EngineReturned =>
       \A bir1 \in {Bir1} :
          LET n == Len(bir1)
          IN  /\ n = Len(Str(Hi)) - Len(Str(Lo)) + 1
              /\ bir1[1][1] = Str(Lo)
              /\ bir1[n][2] = Str(Hi)
              /\ \A i \in 1..n :
                    /\ Len(bir1[i][1]) = Len(bir1[i][2])
                    /\ IntOf(bir1[i][1]) <= IntOf(bir1[i][2])
              /\ \A i \in 1..(n - 1) :
                    /\ bir1[i][2] = Str(10 ^ (Len(Str(Lo)) + i - 1) - 1)
                    /\ bir1[i + 1][1] = Str(10 ^ (Len(Str(Lo)) + i - 1))

\* a state reached by C13: a one-digit start and a three-digit end, cut at
\* 9 | 10 and at 99 | 100
C13_Witness ==
    /\ EngineReturned /\ Lo >= 2 /\ Lo < 10 /\ Hi > 100 /\ Hi < 1000
    /\ Bir1 = << <<Str(Lo), <<"9">>>>, <<<<"1", "0">>, <<"9", "9">>>>,
                 <<<<"1", "0", "0">>, Str(Hi)>> >>

\* C14: Splitter output is an exact ordered partition.  For 1 <= a <= b the
\* list break_into_ranges(a, b) returns starts at a, ends at b, every pair
\* has start <= end and every pair starts exactly one above the end of the
\* pair before it.
C14_ExactPartition ==
    (EngineReturned /\ Lo >= 1) =>
       \A bir \in {Bir} :
          LET n == Len(bir)
          IN  /\ n >= 1
              /\ IntOf(bir[1][1]) = Lo
              /\ IntOf(bir[n][2]) = Hi
              /\ \A i \in 1..n : IntOf(bir[i][1]) <= IntOf(bir[i][2])
              /\ \A i \in 1..(n - 1) : IntOf(bir[i + 1][1]) = IntOf(bir[i][2]) + 1

\* a state reached by C14: an interval split into at least five SubRanges,
\* some of them produced below a reattached leading digit
C14_Witness ==
    /\ EngineReturned /\ Lo >= 1 /\ Len(Bir) >= 5
    /\ \E i \in 1..(Len(Bir) - 1) :
          Len(Bir[i][1]) = 3 /\ Bir[i][1][1] = Bir[i + 1][2][1]

\* the pair has the shape: common prefix, a free position p, then only
\* positions with s = 0 and e = 9
ShapeAt(s, e, p) ==
    /\ \A i \in 1..Len(s) : i < p => s[i] = e[i]
    /\ \A i \in 1..Len(s) : i > p => s[i] = "0" /\ e[i] = "9"

RECURSIVE PositionWise(_, _)
\* the strings that lie between s and e at every position
PositionWise(s, e) ==
    IF s = <<>> THEN {<<>>}
    ELSE {<<Digit[d + 1]>> \o t : d \in DigitVal(s[1])..DigitVal(e[1]),
                                 t \in PositionWise(Tail(s), Tail(e))}

\* the strings of the length of s that lie between s and e numerically
Numerically(s, e) == {Rjust(Str(x), Len(s), "0") : x \in IntOf(s)..IntOf(e)}

\* C15: SubRange simplicity.  Every pair (s, e) break_into_ranges_2 emits
\* has equal length, s[i] <= e[i] at every position and the shape common
\* prefix, at most one free position, then only 0..9 positions; so the
\* strings between s and e position by position are exactly the strings
\* between them numerically.
C15_Simplicity ==
    (EngineReturned /\ Lo >= 1) =>
       \A bir \in {Bir} :
          \A k \in 1..Len(bir) :
             LET s == bir[k][1]
                 e == bir[k][2]
             IN  /\ Len(s) = Len(e)
                 /\ \A i \in 1..Len(s) : DigitVal(s[i]) <= DigitVal(e[i])
                 /\ \E p \in 1..(Len(s) + 1) : ShapeAt(s, e, p)
                 /\ PositionWise(s, e) = Numerically(s, e)

\* a state reached by C15: a three-digit SubRange with a common leading
\* digit, a free second position and a 0..9 last position
C15_Witness ==
    /\ EngineReturned /\ Lo >= 1
    /\ \E bir \in {Bir} :
          \E k \in 1..Len(bir) :
             /\ Len(bir[k][1]) = 3 /\ ShapeAt(bir[k][1], bir[k][2], 2)
             /\ bir[k][1][2] # bir[k][2][2]
             /\ PositionWise(bir[k][1], bir[k][2]) = Numerically(bir[k][1], bir[k][2])

\* the token the builder is to emit for one position
ClaimedToken(sc, ec) ==
    IF sc = ec THEN <<sc>>
    ELSE IF DigitVal(ec) = DigitVal(sc) + 1 THEN <<"[", sc, ec, "]">>
    ELSE <<"[", sc, "-", ec, "]">>

ClaimedTokens(s, e) == [i \in 1..Len(s) |-> ClaimedToken(s[i], e[i])]

\* the length of the run of '[0-9]' tokens at the head of the list
RECURSIVE RunLen(_)
RunLen(tokens) ==
    IF tokens = <<>> \/ Head(tokens) # AnyDigit THEN 0 ELSE 1 + RunLen(Tail(tokens))

\* the list with every maximal run of n >= 2 '[0-9]' tokens replaced by
\* the one token '[0-9]{n}'
RECURSIVE GroupRuns(_)
GroupRuns(tokens) ==
    IF tokens = <<>> THEN <<>>
    ELSE IF RunLen(tokens) >= 2
         THEN <<AnyDigit \o <<"{">> \o Str(RunLen(tokens)) \o <<"}">>>>
              \o GroupRuns(From(tokens, RunLen(tokens)))
    ELSE <<Head(tokens)>> \o GroupRuns(Tail(tokens))

\* the text has two adjacent '[0-9]' tokens
AdjacentAnyDigit(r) ==
    \E i \in 1..(Len(r) - 9) : SubSeq(r, i, i + 9) = AnyDigit \o AnyDigit

\* C16: PositionRegexBuilder.  For every SubRange (s, e), individual_regex
\* returns the per-position tokens (literal digit, two-element class or
\* contiguous class) with every maximal run of n >= 2 '[0-9]' tokens replaced
\* by '[0-9]{n}'; the result has no two adjacent '[0-9]' tokens and matches
\* the same strings as the unshrunk text, the strings between s and e.
C16_PositionRegex ==
    (EngineReturned /\ Lo >= 1) =>
       \A bir \in {Bir} :
          \A k \in 1..Len(bir) :
             \A rx \in {individual_regex(bir[k][1], bir[k][2])} :
                LET tokens == ClaimedTokens(bir[k][1], bir[k][2])
                IN  /\ rx = Flatten(GroupRuns(tokens))
                    /\ ~AdjacentAnyDigit(rx)
                    /\ Compiles(rx)
                    /\ Lang(rx) = Lang(Flatten(tokens))
                    /\ Lang(rx) = Numerically(bir[k][1], bir[k][2])

\* a state reached by C16: one SubRange built as a literal followed by a
\* shrunk run of two, 1[0-9]{2}, and another with a contiguous class
C16_Witness ==
    /\ EngineReturned /\ Lo >= 1
    /\ \E bir \in {Bir} :
          /\ \E k \in 1..Len(bir) :
                /\ individual_regex(bir[k][1], bir[k][2])
                      = <<"1">> \o AnyDigit \o <<"{", "2", "}">>
                /\ Flatten(ClaimedTokens(bir[k][1], bir[k][2]))
                      = <<"1">> \o AnyDigit \o AnyDigit
          /\ \E k \in 1..Len(bir) :
                individual_regex(bir[k][1], bir[k][2]) = NonZeroDigit \o AnyDigit

\* the Alternatives the builder produces for the engine call
Alternatives == range_to_regexes(Str(start), Str(end))

\* the alternation of a list of Alternatives
Alternation(list) == Join(<<"|">>, list)

\* C17: PowerOfTenCollapser preserves the language and never lengthens.
\* For every engine call with 0 <= a <= b the alternation of the list
\* collapse_powers_of_10 returns matches exactly the strings the alternation
\* of its input list matches, and its joined text is not longer.
C17_CollapsePreserves ==
    EngineReturned =>
       \A r \in {Alternatives} :
          \A c \in {collapse_powers_of_10(r)} :
             /\ Lang(Alternation(c)) = Lang(Alternation(r))
             /\ Len(Alternation(c)) <= Len(Alternation(r))

\* the same statement for bounds >= 1, where no run begins with '[0-9]'
CollapsePreservesFromOne == Lo >= 1 => C17_CollapsePreserves

\* k when the Alternative is the power-of-ten Alternative of k + 1 digits
\* ('[1-9]', '[1-9][0-9]' or '[1-9][0-9]{k}'), -1 otherwise
P10Index(rx) ==
    IF rx = NonZeroDigit THEN 0
    ELSE IF rx = NonZeroDigit \o AnyDigit THEN 1
    ELSE IF StartsWith(rx, NonZeroDigit \o AnyDigit \o <<"{">>) /\ EndsWith(rx, <<"}">>)
         THEN IntOf(SubSeq(rx, 12, Len(rx) - 1))
    ELSE -1

\* the number of Alternatives at the head of the list that continue a run
\* whose next member is to have index k
RECURSIVE RunRest(_, _)
RunRest(list, k) ==
    IF list = <<>> \/ P10Index(Head(list)) # k THEN 0
    ELSE 1 + RunRest(Tail(list), k + 1)

\* the one Alternative that stands for a run of indices m..n
ExpectedRun(zero, m, n) ==
    IF zero
    THEN IF n = 0 THEN AnyDigit
         ELSE AnyDigit \o <<"{", "1", ",">> \o Str(n + 1) \o <<"}">>
    ELSE IF n = 0 THEN NonZeroDigit
    ELSE IF m = 0 /\ n = 1 THEN NonZeroDigit \o AnyDigit \o <<"?">>
    ELSE IF m = 1 /\ n = 1 THEN NonZeroDigit \o AnyDigit
    ELSE IF m = n THEN NonZeroDigit \o AnyDigit \o <<"{">> \o Str(m) \o <<"}">>
    ELSE NonZeroDigit \o AnyDigit \o <<"{">> \o Str(m) \o <<",">> \o Str(n) \o <<"}">>

\* the list with every maximal run replaced by its one Alternative and
\* every other Alternative kept in place
RECURSIVE ExpectedCollapse(_)
ExpectedCollapse(list) ==
    IF list = <<>> THEN <<>>
    ELSE LET zero == Head(list) = AnyDigit
             m == IF zero THEN 0 ELSE P10Index(Head(list))
             len == 1 + RunRest(Tail(list), m + 1)
         IN  IF zero \/ m >= 0
             THEN <<ExpectedRun(zero, m, m + len - 1)>> \o ExpectedCollapse(From(list, len))
             ELSE <<Head(list)>> \o ExpectedCollapse(Tail(list))

\* the tracking state collapse_powers_of_10 is left with after its loop
Tracking(r) == CollapseLoop(CollapseInit, r \o << <<>> >>)

\* the output form of C18 without its last clause: runs are replaced in
\* place by the Alternative of the stated form, the rest passes through
CollapseOutputForm ==
    EngineReturned =>
       \A r \in {Alternatives} : collapse_powers_of_10(r) = ExpectedCollapse(r)

\* C18: PowerOfTenCollapser output form.  Each maximal run of power-of-ten
\* Alternatives is replaced in place by one Alternative of the stated form
\* ('[1-9]', '[1-9][0-9]?', '[1-9][0-9]', '[1-9][0-9]{m}', '[1-9][0-9]{m,n}',
\* or '[0-9]' and '[0-9]{1,n+1}' for a run that begins with '[0-9]'), every
\* other Alternative passes through unchanged, and after the run the
\* tracking state is back to its initial value.
C18_OutputFormAndReset ==
    EngineReturned =>
       \A r \in {Alternatives} :
          /\ collapse_powers_of_10(r) = ExpectedCollapse(r)
          /\ Tracking(r).p10start = CollapseInit.p10start
          /\ Tracking(r).p10end = CollapseInit.p10end
          /\ Tracking(r).starts_with_0 = CollapseInit.starts_with_0

\* the collapsed list of the engine call
Collapsed == collapse_powers_of_10(Alternatives)

\* the flat alternation '(A|B|...)' of a list
FlatOf(c) == <<"(">> \o Alternation(c) \o <<")">>

\* every Alternative of the list is tokenized without error
AllTokenized(c) == \A i \in 1..Len(c) : tokenize(c[i]).ok

\* the string the prefix tree of the list collapses to
FactoredOf(c) == collapse(rfr_tree(<<>>, [i \in 1..Len(c) |-> tokenize(c[i]).tokens]))

\* C19: Factoring is used only when strictly shorter, with silent fallback.
\* When the collapsed list has two or more Alternatives, the call returns
\* the factored string if the Alternatives were tokenized and the factored
\* string is strictly shorter than the flat one, and the flat alternation in
\* every other case; it raises nothing and what it returns is never longer
\* than the flat alternation.
C19_FactorOnlyIfShorter ==
    entry = "engine" =>
       \A c \in {Collapsed} :
          Len(c) >= 2 =>
             \A flat \in {FlatOf(c)}, s2 \in {FactoredOf(c)} :
                /\ outcome = "returned"
                /\ result = IF AllTokenized(c) /\ Len(s2) < Len(flat) THEN s2 ELSE flat
                /\ Len(result) <= Len(flat)

\* a state reached by C19: the factored string is longer than the flat one
\* and the call has returned the flat alternation
C19_Witness ==
    /\ EngineReturned /\ Len(Collapsed) >= 3
    /\ AllTokenized(Collapsed)
    /\ Len(FactoredOf(Collapsed)) > Len(FlatOf(Collapsed))
    /\ result = FlatOf(Collapsed)

\* r contains the text sub
Contains(r, sub) ==
    \E i \in 1..(Len(r) - Len(sub) + 1) : SubSeq(r, i, i + Len(sub) - 1) = sub

\* C20: Prefix factoring preserves the language.  For the collapsed list of
\* every engine call with two or more Alternatives, the string the prefix
\* tree collapses to compiles and matches exactly the strings the flat
\* alternation of the list matches.
C20_FactoringPreserves ==
    EngineReturned =>
       \A c \in {Collapsed} :
          Len(c) >= 2 =>
             \A s2 \in {FactoredOf(c)} :
                /\ Compiles(s2)
                /\ Lang(s2) = Lang(FlatOf(c))

\* a state reached by C20: the Alternative '9' is a proper prefix of two
\* others, so that the tree has an empty branch next to two non-empty ones
\* and collapses to '9(...|...)?', which matches the interval
C20_Witness ==
    /\ EngineReturned /\ Lo >= 1 /\ Len(Collapsed) >= 4
    /\ \E i \in 1..Len(Collapsed) : Collapsed[i] = <<"9">>
    /\ StartsWith(FactoredOf(Collapsed), <<"(", "9", "(">>)
    /\ Contains(FactoredOf(Collapsed), <<"|", "9", "[", "0", "1", "]", ")", "?">>)
    /\ Lang(FactoredOf(Collapsed)) = Canonical(Lo, Hi)

\* reached as well: an empty branch next to one short non-empty branch,
\* collapsed to 'x?' without a group
FactoredOptionalToken ==
    /\ EngineReturned /\ Len(Collapsed) >= 2
    /\ StartsWith(FactoredOf(Collapsed), <<"(", "9", "[", "0", "1", "]", "?">>)
    /\ result = FactoredOf(Collapsed)

\* reached as well: all Alternatives share their head token, so that the
\* root has a single branch and the string has no enclosing group
FactoredSingleRoot ==
    /\ EngineReturned /\ Len(Collapsed) >= 2
    /\ \A i \in 1..Len(Collapsed) : Collapsed[i][1] = "1"
    /\ StartsWith(FactoredOf(Collapsed), <<"1", "(">>)
    /\ result = FactoredOf(Collapsed)

\* the number of levels of the prefix tree below the node t
RECURSIVE TreeDepth(_)
TreeDepth(t) ==
    IF t.branches = <<>> THEN 0
    ELSE LET d == [i \in 1..Len(t.branches) |-> TreeDepth(t.branches[i])]
         IN  1 + (CHOOSE m \in {d[i] : i \in 1..Len(d)} :
                     \A i \in 1..Len(d) : d[i] <= m)

\* the prefix tree rfr builds for the collapsed list c
TreeOf(c) == rfr_tree(<<>>, [i \in 1..Len(c) |-> tokenize(c[i]).tokens])

\* the original statement of C21: for every band of L digits the nesting
\* of break_into_ranges_2 calls never exceeds L, and the prefix tree is at
\* most L levels deep below its root
C21_Original ==
    EngineReturned =>
       /\ \A bir1 \in {Bir1} :
             \A k \in 1..Len(bir1) :
                break_into_ranges_2_depth(bir1[k][1], bir1[k][2]) <= Len(bir1[k][1])
       /\ \A c \in {Collapsed} :
             Len(c) >= 2 => TreeDepth(TreeOf(c)) <= Len(Str(Hi))

\* C21 (amended): Bounded recursion depth.  For every band (s, e) of L
\* digits break_into_ranges_2(s, e) terminates and the number of nested
\* active break_into_ranges_2 calls never exceeds 2L, and is 1 for L = 1;
\* the prefix tree built for the Alternatives is at most L levels deep
\* below its root, L being the digit length of the larger endpoint.
C21_DepthBound ==
    EngineReturned =>
       /\ \A bir1 \in {Bir1} :
             \A k \in 1..Len(bir1) :
                \A d \in {break_into_ranges_2_depth(bir1[k][1], bir1[k][2])} :
                   /\ d >= 1
                   /\ d <= 2 * Len(bir1[k][1])
                   /\ Len(bir1[k][1]) = 1 => d = 1
       /\ \A c \in {Collapsed} :
             Len(c) >= 2 => TreeDepth(TreeOf(c)) <= Len(Str(Hi))

\* a state reached by C21: a three-digit band whose splitting nests six
\* calls, twice its digit length, and a prefix tree three levels deep
C21_Witness ==
    /\ EngineReturned /\ Lo >= 100 /\ Hi <= 999
    /\ break_into_ranges_2_depth(Str(Lo), Str(Hi)) = 6
    /\ Len(Collapsed) >= 2
    /\ TreeDepth(TreeOf(Collapsed)) = 3


\* r has balanced parentheses and each '|' of r lies inside a group
Grouped(r) ==
    /\ \A i \in 1..Len(r) : Depth(r, i) >= 0
    /\ Depth(r, Len(r)) = 0
    /\ \A i \in 1..Len(r) : r[i] = "|" => Depth(r, i) >= 1

\* the strings of L with a '-' in front
Negated(L) == {<<"-">> \o w : w \in L}

\* the language the sign wrapper is meant to give for s <= e, built from
\* the languages of the engine strings it embeds
WrappedLang(s, e) ==
    IF s > 0 THEN Lang(E(s, e))
    ELSE IF s = 0 /\ e > 0 THEN {<<"0">>} \cup Lang(E(1, e))
    ELSE IF s = 0 /\ e = 0 THEN {<<"0">>}
    ELSE IF e = 0 THEN {<<"0">>} \cup Negated(Lang(E(1, -s)))
    ELSE IF e < 0 THEN Negated(Lang(E(-e, -s)))
    ELSE Negated(Lang(E(1, -s))) \cup {<<"0">>} \cup Lang(E(1, e))

\* in the union pattern of the member patterns upatt every '^' and '$' sits
\* directly in the group of its member and no '|' of a member shares that
\* level, so that each pair of anchors spans its whole member
AnchorsSpanMembers(upatt) ==
    \A u \in {union_pattern(upatt)} :
        /\ \A i \in 1..Len(u) : Depth(u, i) >= 0
        /\ Depth(u, Len(u)) = 0
        /\ \A i \in 1..Len(u) :
               /\ u[i] \in {"^", "$"} => Depth(u, i) = 1
               /\ u[i] = "|" => Depth(u, i) # 1

\* C22: Alternation is always grouped.  For 1 <= a <= b the string
\* regex_for_range(a, b) returns has balanced parentheses and each '|' in it
\* lies inside a group; hence the '-' and the '(0|' ... ')' that
\* RegexForRange adds act on the whole engine string (the language of the
\* wrapped string is composed of the whole languages of the embedded
\* strings), and in a union pattern the anchors span the whole member.
C22_AlternationGrouped ==
    /\ (EngineReturned /\ 1 <= start /\ start <= end) =>
           /\ Grouped(result)
           /\ AnchorsSpanMembers(<<result, result>>)
    /\ ReprReturned =>
           /\ Grouped(result)
           /\ Lang(result) = WrappedLang(start, end)
           /\ AnchorsSpanMembers(<<result, <<"0">> >>)

\* reached: the factored form is returned, it holds a '|' and it does not
\* begin with '(' (all Alternatives share the head token)
C22_Witness ==
    /\ EngineReturned /\ 1 <= start /\ start <= end
    /\ Len(Collapsed) >= 2
    /\ result = FactoredOf(Collapsed)
    /\ result[1] # "("
    /\ \E i \in 1..Len(result) : result[i] = "|" /\ Depth(result, i) = 1

\* reached as well: the flat form is returned
GroupedFlat ==
    /\ EngineReturned /\ 1 <= start /\ start <= end
    /\ Len(Collapsed) >= 2
    /\ result = FlatOf(Collapsed)

\* reached as well: a single Alternative is returned, without any group
GroupedSingle ==
    /\ EngineReturned /\ 1 <= start /\ start < end
    /\ Len(Collapsed) = 1
    /\ result = Collapsed[1]

\* reached as well: a negative interval whose engine string is factored
NegatedFactored ==
    /\ ReprReturned /\ end < 0
    /\ StartsWith(result, <<"(", "-", "1", "(">>)

============================================================================
